---- MODULE Spec2Model ----
(***************************************************************************)
(* Model of update_comfyui.py: the launcher-owned ComfyUI updater.         *)
(*                                                                         *)
(* The repository (commit graph, references, HEAD, index, working tree,    *)
(* stash store), the remote named origin, and the output stream are the    *)
(* state.  main() is cut into its steps (one action per step, in program   *)
(* order); pull() and find_latest_stable_tag() are operators computed as   *)
(* the code computes them.  Strings the code inspects (reference names)    *)
(* are sequences of one-character strings.                                 *)
(***************************************************************************)
EXTENDS Integers, Sequences, FiniteSets, TLC

(***************************************************************************)
(* Bounds of the model.                                                    *)
(***************************************************************************)
\* Number of runs of main() on the same working copy.
MaxRuns == 2
\* Number of backend failures (a stash, branch creation or fetch that fails, a
\* signature that does not resolve) injected over all runs.
MaxFaults == 1
\* Number of references handed to find_latest_stable_tag in SelectSpec.
MaxRefs == 3

(***************************************************************************)
(* Characters and strings.                                                 *)
(***************************************************************************)
Digits == <<"0", "1", "2", "3", "4", "5", "6", "7", "8", "9">>

IsDigit(c) == \E i \in 1..10 : Digits[i] = c

DigitVal(c) == (CHOOSE i \in 1..10 : Digits[i] = c) - 1

\* Code points of the characters used in reference names (Python compares
\* strings by code point).
CharCode(c) ==
    CASE c = "+" -> 43
      [] c = "-" -> 45
      [] c = "." -> 46
      [] c = "/" -> 47
      [] IsDigit(c) -> 48 + DigitVal(c)
      [] c = "_" -> 95
      [] c = "a" -> 97
      [] c = "c" -> 99
      [] c = "d" -> 100
      [] c = "e" -> 101
      [] c = "f" -> 102
      [] c = "g" -> 103
      [] c = "h" -> 104
      [] c = "r" -> 114
      [] c = "s" -> 115
      [] c = "t" -> 116
      [] c = "v" -> 118
      [] c = "x" -> 120

\* s.startswith(p)
StartsWith(s, p) ==
    /\ Len(s) >= Len(p)
    /\ SubSeq(s, 1, Len(p)) = p

\* Python's s1 < s2 on strings.
RECURSIVE StrLess(_, _)
StrLess(s1, s2) ==
    IF s2 = <<>> THEN FALSE
    ELSE IF s1 = <<>> THEN TRUE
    ELSE IF Head(s1) = Head(s2) THEN StrLess(Tail(s1), Tail(s2))
    ELSE CharCode(Head(s1)) < CharCode(Head(s2))

\* s.split(sep) for a one-character separator: the list of the pieces between
\* separators, empty pieces kept ("".split(".") is [""]).
RECURSIVE Split(_, _)
Split(s, sep) ==
    IF \A i \in 1..Len(s) : s[i] # sep THEN <<s>>
    ELSE LET k == CHOOSE i \in 1..Len(s) :
                      /\ s[i] = sep
                      /\ \A j \in 1..(i - 1) : s[j] # sep
         IN <<SubSeq(s, 1, k - 1)>> \o Split(SubSeq(s, k + 1, Len(s)), sep)

\* s.replace(old, "") : every occurrence of old removed, left to right.
RECURSIVE RemoveAll(_, _)
RemoveAll(s, old) ==
    IF s = <<>> THEN <<>>
    ELSE IF StartsWith(s, old) THEN RemoveAll(SubSeq(s, Len(old) + 1, Len(s)), old)
    ELSE <<Head(s)>> \o RemoveAll(Tail(s), old)

(***************************************************************************)
(* int(text), for the characters a reference name can hold: an optional    *)
(* sign, then decimal digits, single underscores allowed between digits.   *)
(* ok = FALSE stands for ValueError.                                       *)
(***************************************************************************)
RECURSIVE DigitsValue(_, _)
DigitsValue(s, acc) ==
    IF s = <<>> THEN acc
    ELSE IF Head(s) = "_" THEN DigitsValue(Tail(s), acc)
    ELSE DigitsValue(Tail(s), 10 * acc + DigitVal(Head(s)))

IntBodyOk(s) ==
    /\ s # <<>>
    /\ IsDigit(s[1])
    /\ IsDigit(s[Len(s)])
    /\ \A i \in 1..Len(s) : IsDigit(s[i]) \/ s[i] = "_"
    /\ \A i \in 1..(Len(s) - 1) : ~(s[i] = "_" /\ s[i + 1] = "_")

ParseInt(s) ==
    LET signed == s # <<>> /\ s[1] \in {"+", "-"}
        body   == IF signed THEN Tail(s) ELSE s
    IN IF ~IntBodyOk(body) THEN [ok |-> FALSE, val |-> 0]
       ELSE [ok |-> TRUE,
             val |-> IF signed /\ s[1] = "-" THEN 0 - DigitsValue(body, 0)
                     ELSE DigitsValue(body, 0)]

(***************************************************************************)
(* find_latest_stable_tag                                                  *)
(***************************************************************************)
RefsTags == <<"r", "e", "f", "s", "/", "t", "a", "g", "s", "/">>

RefsHeads == <<"r", "e", "f", "s", "/", "h", "e", "a", "d", "s", "/">>

\* prefix = "refs/tags/v"
TagPrefix == RefsTags \o <<"v">>

\* None
NoTag == <<>>

\* tuple(map(int, ref_name[len(prefix):].split("."))): ok = FALSE when int()
\* raises ValueError on a component.
ParseParts(ref_name) ==
    LET pieces == Split(SubSeq(ref_name, Len(TagPrefix) + 1, Len(ref_name)), ".")
    IN [ok    |-> \A i \in 1..Len(pieces) : ParseInt(pieces[i]).ok,
        parts |-> [i \in 1..Len(pieces) |-> ParseInt(pieces[i]).val]]

\* Python's p < q on tuples of integers: the first differing component decides,
\* and a proper prefix is smaller.
RECURSIVE TupleLess(_, _)
TupleLess(p, q) ==
    IF q = <<>> THEN FALSE
    ELSE IF p = <<>> THEN TRUE
    ELSE IF Head(p) = Head(q) THEN TupleLess(Tail(p), Tail(q))
    ELSE Head(p) < Head(q)

\* A plausible bug: the list is ordered by the reference names as text.
EntryLessByName(e1, e2) == StrLess(e1.name, e2.name)

\* (parts, ref_name) < (parts, ref_name), the order versions.sort() uses.
EntryLess(e1, e2) ==
    \/ TupleLess(e1.parts, e2.parts)
    \/ e1.parts = e2.parts /\ StrLess(e1.name, e2.name)

\* The loop of lines 61-68 over the references in iteration order.
RECURSIVE CollectVersions(_)
CollectVersions(refs) ==
    IF refs = <<>> THEN <<>>
    ELSE LET ref_name == Head(refs)
             rest     == CollectVersions(Tail(refs))
         IN IF StartsWith(ref_name, TagPrefix) /\ ParseParts(ref_name).ok
            THEN <<[parts |-> ParseParts(ref_name).parts, name |-> ref_name]>> \o rest
            ELSE rest

\* versions.sort(): a stable sort (an element goes after those not greater).
RECURSIVE InsertSorted(_, _)
InsertSorted(e, sorted) ==
    IF sorted = <<>> THEN <<e>>
    ELSE IF EntryLess(e, Head(sorted)) THEN <<e>> \o sorted
    ELSE <<Head(sorted)>> \o InsertSorted(e, Tail(sorted))

RECURSIVE SortVersions(_)
SortVersions(versions) ==
    IF versions = <<>> THEN <<>>
    ELSE InsertSorted(versions[Len(versions)],
                      SortVersions(SubSeq(versions, 1, Len(versions) - 1)))

find_latest_stable_tag(refs) ==
    LET versions == SortVersions(CollectVersions(refs))
    IN IF versions = <<>> THEN NoTag ELSE versions[Len(versions)].name

(***************************************************************************)
(* The commit graph.  A commit has its parents, in order, its tree (the    *)
(* content of each file, 0 for a file that is absent) and its message.     *)
(* Commit ids are the positions in the sequence of all commits; 0 is no    *)
(* commit (a reference that does not exist).                               *)
(***************************************************************************)
Files == <<"a", "b">>

Tree(a, b) == [a |-> a, b |-> b]

EmptyTree == Tree(0, 0)

Commit(parents, tree, message) ==
    [parents |-> parents, tree |-> tree, message |-> message]

\* The history that exists before the first run, locally or on the remote:
\*   1  the root;
\*   2  a child of 1 that edits file a (the local-only commit);
\*   3  a child of 1 that edits file a differently (conflicts with 2);
\*   4  a child of 1 that edits file b (merges cleanly with 2);
\*   5  a root of an unrelated history that adds file a.
InitialCommits ==
    << Commit(<<>>, Tree(1, 1), "root"),
       Commit(<<1>>, Tree(2, 1), "local"),
       Commit(<<1>>, Tree(3, 1), "upstream a"),
       Commit(<<1>>, Tree(1, 2), "upstream b"),
       Commit(<<>>, Tree(5, 0), "unrelated") >>

\* Content of a file edited locally and not committed.
LocalEdit == 9

\* Content of a file the merge left with conflict markers.
ConflictMarkers == 8

RECURSIVE IsAncestor(_, _, _)
\* a is b or an ancestor of b in graph g.
IsAncestor(g, a, b) ==
    \/ a = b
    \/ \E i \in 1..Len(g[b].parents) : IsAncestor(g, a, g[b].parents[i])

Ancestors(g, c) == {a \in 1..Len(g) : IsAncestor(g, a, c)}

\* git_merge_base: the common ancestors that no other common ancestor descends
\* from.
MergeBases(g, our, their) ==
    LET common == Ancestors(g, our) \cap Ancestors(g, their)
    IN {c \in common : \A d \in common : IsAncestor(g, c, d) => d = c}

MergeBase(g, our, their) ==
    IF MergeBases(g, our, their) = {} THEN 0
    ELSE CHOOSE c \in MergeBases(g, our, their) : TRUE

\* repo.merge_analysis(their): the flags of merge_result.
merge_analysis(g, our, their) ==
    LET base == MergeBase(g, our, their)
    IN IF base # 0 /\ base = their THEN {"UP_TO_DATE"}
       ELSE IF base # 0 /\ base = our THEN {"FASTFORWARD", "NORMAL"}
       ELSE {"NORMAL"}

(***************************************************************************)
(* Three-way merge of trees, file by file.                                 *)
(***************************************************************************)
FileConflicts(base, ours, theirs, f) ==
    /\ ours[f] # theirs[f]
    /\ ours[f] # base[f]
    /\ theirs[f] # base[f]

MergedFile(base, ours, theirs, f) ==
    IF ours[f] = theirs[f] THEN ours[f]
    ELSE IF ours[f] = base[f] THEN theirs[f]
    ELSE IF theirs[f] = base[f] THEN ours[f]
    ELSE 0

\* The index after repo.merge: the entries merged cleanly (a conflicting path
\* has no merged entry)...
MergedTree(base, ours, theirs) ==
    Tree(MergedFile(base, ours, theirs, "a"), MergedFile(base, ours, theirs, "b"))

\* ... and the working tree, where a conflicting file holds conflict markers.
WorktreeFile(base, ours, theirs, f) ==
    IF FileConflicts(base, ours, theirs, f) THEN ConflictMarkers
    ELSE MergedFile(base, ours, theirs, f)

MergedWorktree(base, ours, theirs) ==
    Tree(WorktreeFile(base, ours, theirs, "a"), WorktreeFile(base, ours, theirs, "b"))

\* None, for a side of a conflict that has no entry.
NoEntry == ""

\* repo.index.conflicts: one (ancestor, ours, theirs) triple per conflicting
\* path, in path order; a side is the entry's path or None.
ConflictEntry(base, ours, theirs, f) ==
    << IF base[f] = 0 THEN NoEntry ELSE f,
       IF ours[f] = 0 THEN NoEntry ELSE f,
       IF theirs[f] = 0 THEN NoEntry ELSE f >>

RECURSIVE ConflictsFrom(_, _, _, _)
ConflictsFrom(base, ours, theirs, files) ==
    IF files = <<>> THEN <<>>
    ELSE (IF FileConflicts(base, ours, theirs, Head(files))
          THEN <<ConflictEntry(base, ours, theirs, Head(files))>>
          ELSE <<>>) \o ConflictsFrom(base, ours, theirs, Tail(files))

MergeConflicts(base, ours, theirs) == ConflictsFrom(base, ours, theirs, Files)

(***************************************************************************)
(* State.                                                                  *)
(***************************************************************************)
VARIABLES
    repo,        \* the working copy: see InitialRepo
    remote,      \* the remote named origin: configured, its master, its tags
    clock,       \* the last second the wall clock was read at
    argv,        \* sys.argv[1:] of the last start of the program
    stable,      \* main's local stable: --stable is among the arguments
    pc,          \* the step main() is at
    run,         \* number of runs that opened the working copy
    faults,      \* number of backend failures injected so far
    failure,     \* the step of the current run whose exception left main ("": none)
    pre_head,    \* main's local pre_head (0 before it is read)
    backup_name, \* main's local backup_name, as its timestamp (0 before)
    out,         \* the lines the current run has printed
    calls,       \* the repository operations the current run has invoked (a
                 \* fetch is followed by the refspecs it was given)
    refList,     \* repo.references as find_latest_stable_tag last iterated it
    tag,         \* what find_latest_stable_tag last returned
    start,       \* the working copy and the remote at the start of the run
    log          \* the run before the current one, if any: see Finished

vars == <<repo, remote, clock, argv, stable, pc, run, faults, failure, pre_head,
          backup_name, out, calls, refList, tag, start, log>>

(***************************************************************************)
(* The working copy.                                                       *)
(***************************************************************************)
\* repo.head: HEAD is attached to a local branch or detached at a commit.
AttachedTo(branch) == [attached |-> TRUE, branch |-> branch, commit |-> 0]

DetachedAt(c) == [attached |-> FALSE, branch |-> "", commit |-> c]

\* repo.head.target / repo.head.peel(): the commit HEAD resolves to.
HeadCommit(r) ==
    IF r.head.attached THEN r.heads[r.head.branch] ELSE r.head.commit

HeadTree(r) == r.commits[HeadCommit(r)].tree

CleanIndex(tree) == [tree |-> tree, conflicts |-> <<>>]

\* The objects reachable from a set of commits.
Closure(g, cs) == UNION {Ancestors(g, c) : c \in cs \ {0}}

\* repo.checkout_tree(commit): index and working tree take the commit's tree.
checkout_tree(r, c) ==
    [r EXCEPT !.index = CleanIndex(r.commits[c].tree),
              !.worktree = r.commits[c].tree]

\* repo.checkout(ref) for a local branch: checkout_tree, then HEAD is attached
\* to the branch.
checkout_branch(r, branch) ==
    [checkout_tree(r, r.heads[branch]) EXCEPT !.head = AttachedTo(branch)]

\* A plausible bug: the current branch is moved to the tag's commit and HEAD
\* stays attached to it (a hard reset to the tag).
checkout_tag_attached(r, name) ==
    IF r.head.attached
    THEN [checkout_tree(r, r.tags[name]) EXCEPT !.heads[r.head.branch] = r.tags[name]]
    ELSE [checkout_tree(r, r.tags[name]) EXCEPT !.head = DetachedAt(r.tags[name])]

\* repo.checkout(ref) for a tag: checkout_tree, then set_head on a reference
\* that is no branch detaches HEAD at the commit.
checkout_tag(r, name) ==
    [checkout_tree(r, r.tags[name]) EXCEPT !.head = DetachedAt(r.tags[name])]

\* Moving the reference HEAD resolves to (repo.head.set_target, and
\* create_commit("HEAD", ...)): the branch when attached, HEAD itself when not.
SetHeadTarget(r, c) ==
    IF r.head.attached THEN [r EXCEPT !.heads[r.head.branch] = c]
    ELSE [r EXCEPT !.head = DetachedAt(c)]

(***************************************************************************)
(* repo.stash(ident).  raised is "" (a snapshot was saved), "KeyError"     *)
(* (nothing to stash) or "GitError" (the index holds conflicts, or the     *)
(* backend failed: fault).  A saved snapshot goes on top of the stash and  *)
(* index and working tree go back to the tree of HEAD.                     *)
(***************************************************************************)
Snapshot(r) ==
    [base |-> HeadCommit(r), index |-> r.index.tree, worktree |-> r.worktree]

\* A plausible bug: the snapshot is saved and the edits are kept in place (as
\* after stash followed by stash apply).
stash_keeping(r, fault) ==
    IF fault \/ r.index.conflicts # <<>> THEN [repo |-> r, raised |-> "GitError"]
    ELSE IF r.worktree = HeadTree(r) /\ r.index.tree = HeadTree(r)
    THEN [repo |-> r, raised |-> "KeyError"]
    ELSE [repo |-> [r EXCEPT !.stash = <<Snapshot(r)>> \o r.stash], raised |-> ""]

stash(r, fault) ==
    IF fault \/ r.index.conflicts # <<>> THEN [repo |-> r, raised |-> "GitError"]
    ELSE IF r.worktree = HeadTree(r) /\ r.index.tree = HeadTree(r)
    THEN [repo |-> r, raised |-> "KeyError"]
    ELSE [repo |-> [r EXCEPT !.stash = <<Snapshot(r)>> \o r.stash,
                             !.index = CleanIndex(HeadTree(r)),
                             !.worktree = HeadTree(r)],
          raised |-> ""]

\* A plausible bug: the merge state is cleared and the index is left as it is.
clean_index_keeping(r) == [r EXCEPT !.state = "NONE"]

\* Lines 97-99: repo.state_cleanup(); repo.index.read_tree(HEAD's tree);
\* repo.index.write().
clean_index(r) ==
    [r EXCEPT !.state = "NONE", !.index = CleanIndex(HeadTree(r))]

(***************************************************************************)
(* Output.  A printed line is its format text and the value formatted into *)
(* it: a commit id, a backup timestamp, a reference or tag name, a path.   *)
(* The ellipsis character of the progress lines is written as three dots.  *)
(***************************************************************************)
Line(text, commit, stamp, name, arg) ==
    [text |-> text, commit |-> commit, stamp |-> stamp, name |-> name, arg |-> arg]

Say(text) == Line(text, 0, 0, <<>>, "")

PreHeadMarker == "[PRE_UPDATE_HEAD] "

BackupMarker == "[BACKUP_BRANCH] "

TagMarker == "[CHECKED_OUT_TAG] "

PostHeadMarker == "[POST_UPDATE_HEAD] "

Markers == {PreHeadMarker, BackupMarker, TagMarker, PostHeadMarker}

(***************************************************************************)
(* pull(repo): merge_analysis of HEAD against refs/remotes/origin/master,  *)
(* then nothing, a fast-forward or a merge.  raised is "" on return, else  *)
(* the exception; signature is whether repo.default_signature resolves     *)
(* (user.name and user.email are configured).                              *)
(***************************************************************************)
\* Line 44: the first side of the conflict that is not None.
FirstEntry(conflict) ==
    IF \A i \in 1..3 : conflict[i] = NoEntry THEN NoEntry
    ELSE conflict[CHOOSE i \in 1..3 :
                      /\ conflict[i] # NoEntry
                      /\ \A j \in 1..(i - 1) : conflict[j] = NoEntry]

\* Lines 43-45.
ConflictLines(conflicts) ==
    [i \in 1..Len(conflicts) |->
        Line("Conflict in: ", 0, 0, <<>>,
             IF FirstEntry(conflicts[i]) # NoEntry THEN FirstEntry(conflicts[i])
             ELSE "unknown")]

\* Lines 31-37.
fast_forward(r, remote_id) ==
    SetHeadTarget([checkout_tree(r, remote_id) EXCEPT !.heads.master = remote_id],
                  remote_id)

\* Line 41, repo.merge(remote_id): index and working tree hold the merge of
\* HEAD and remote_id over their merge base, and the merge is in progress.
merge(r, remote_id) ==
    LET b      == MergeBase(r.commits, HeadCommit(r), remote_id)
        base   == IF b = 0 THEN EmptyTree ELSE r.commits[b].tree
        ours   == HeadTree(r)
        theirs == r.commits[remote_id].tree
    IN [r EXCEPT !.index = [tree |-> MergedTree(base, ours, theirs),
                            conflicts |-> MergeConflicts(base, ours, theirs)],
                 !.worktree = MergedWorktree(base, ours, theirs),
                 !.state = "MERGE"]

\* A plausible bug: the parents are given in the other order.
create_commit_swapped(r, remote_id) ==
    LET new == Len(r.commits) + 1
        g   == Append(r.commits,
                      Commit(<<remote_id, HeadCommit(r)>>, r.index.tree, "Merge!"))
    IN [[r EXCEPT !.commits = g,
                  !.odb = @ \cup {new},
                  !.heads[r.head.branch] = new]
           EXCEPT !.state = "NONE"]

\* Lines 48-53: the commit of the index with parents [HEAD, remote_id], HEAD's
\* reference moved to it, and the merge state cleared.
create_commit(r, remote_id) ==
    LET new == Len(r.commits) + 1
        g   == Append(r.commits,
                      Commit(<<HeadCommit(r), remote_id>>, r.index.tree, "Merge!"))
    IN [SetHeadTarget([r EXCEPT !.commits = g, !.odb = @ \cup {new}], new)
           EXCEPT !.state = "NONE"]

Returned(r, lines, ops) == [repo |-> r, lines |-> lines, calls |-> ops, raised |-> ""]

Raised(r, lines, ops, exception) ==
    [repo |-> r, lines |-> lines, calls |-> ops, raised |-> exception]

\* A plausible bug: the NORMAL flag is tested before the FASTFORWARD flag, so a
\* fast-forwardable history is merged.
pull_merging_first(r, signature) ==
    IF r.originMaster = 0 THEN Raised(r, <<>>, <<>>, "KeyError")
    ELSE
    LET remote_id    == r.originMaster
        merge_result == merge_analysis(r.commits, HeadCommit(r), remote_id)
        merged       == merge(r, remote_id)
    IN IF "UP_TO_DATE" \in merge_result
       THEN Returned(r, <<Say("Already up to date.")>>, <<"merge_analysis">>)
       ELSE IF "NORMAL" \in merge_result
       THEN IF merged.index.conflicts # <<>>
            THEN Raised(merged, ConflictLines(merged.index.conflicts),
                        <<"merge_analysis", "merge">>, "RuntimeError")
            ELSE Returned(create_commit(merged, remote_id), <<>>,
                          <<"merge_analysis", "merge", "create_commit",
                            "state_cleanup">>)
       ELSE Returned(fast_forward(r, remote_id), <<>>,
                     <<"merge_analysis", "checkout_tree", "set_target">>)

\* A plausible bug: the up-to-date answer is not tested, so a merge commit is
\* made of a history that has nothing new.
pull_without_up_to_date(r, signature) ==
    IF r.originMaster = 0 THEN Raised(r, <<>>, <<>>, "KeyError")
    ELSE
    LET remote_id    == r.originMaster
        merge_result == merge_analysis(r.commits, HeadCommit(r), remote_id)
        merged       == merge(r, remote_id)
    IN IF "FASTFORWARD" \in merge_result
       THEN Returned(fast_forward(r, remote_id), <<>>,
                     <<"merge_analysis", "checkout_tree", "set_target">>)
       ELSE IF merged.index.conflicts # <<>>
       THEN Raised(merged, ConflictLines(merged.index.conflicts),
                   <<"merge_analysis", "merge">>, "RuntimeError")
       ELSE Returned(create_commit(merged, remote_id), <<>>,
                     <<"merge_analysis", "merge", "create_commit", "state_cleanup">>)

\* A plausible bug: the merge is committed although the index holds conflicts.
pull_committing_conflicts(r, signature) ==
    IF r.originMaster = 0 THEN Raised(r, <<>>, <<>>, "KeyError")
    ELSE
    LET remote_id    == r.originMaster
        merge_result == merge_analysis(r.commits, HeadCommit(r), remote_id)
        merged       == merge(r, remote_id)
    IN IF "UP_TO_DATE" \in merge_result
       THEN Returned(r, <<Say("Already up to date.")>>, <<"merge_analysis">>)
       ELSE IF "FASTFORWARD" \in merge_result
       THEN Returned(fast_forward(r, remote_id), <<>>,
                     <<"merge_analysis", "checkout_tree", "set_target">>)
       ELSE Returned(create_commit(merged, remote_id),
                     ConflictLines(merged.index.conflicts),
                     <<"merge_analysis", "merge", "create_commit", "state_cleanup">>)

pull(r, signature) ==
    \* line 22: lookup_reference raises KeyError for a missing reference
    IF r.originMaster = 0 THEN Raised(r, <<>>, <<>>, "KeyError")
    ELSE
    LET remote_id    == r.originMaster
        merge_result == merge_analysis(r.commits, HeadCommit(r), remote_id)
        merged       == merge(r, remote_id)
    IN IF "UP_TO_DATE" \in merge_result
       THEN Returned(r, <<Say("Already up to date.")>>, <<"merge_analysis">>)
       ELSE IF "FASTFORWARD" \in merge_result
       THEN Returned(fast_forward(r, remote_id), <<>>,
                     <<"merge_analysis", "checkout_tree", "set_target">>)
       ELSE IF "NORMAL" \in merge_result
       THEN IF merged.index.conflicts # <<>>
            THEN Raised(merged, ConflictLines(merged.index.conflicts),
                        <<"merge_analysis", "merge">>, "RuntimeError")
            ELSE IF ~signature
            THEN Raised(merged, <<>>, <<"merge_analysis", "merge">>, "KeyError")
            ELSE Returned(create_commit(merged, remote_id), <<>>,
                          <<"merge_analysis", "merge", "create_commit",
                            "state_cleanup">>)
       ELSE Raised(r, <<>>, <<"merge_analysis">>, "RuntimeError")

(***************************************************************************)
(* The remote and the fetch.                                               *)
(***************************************************************************)
\* Tag names, as they follow "refs/tags/".
V1_2_3 == <<"v", "1", ".", "2", ".", "3">>

V1_10_0 == <<"v", "1", ".", "1", "0", ".", "0">>

V2_0_0_rc == <<"v", "2", ".", "0", ".", "0", "-", "r", "c">>

NoTags == <<>>

\* The tags of a remote that has published releases: v1.2.3 at the root,
\* v1.10.0 at commit 3 and the release candidate v2.0.0-rc at commit 4.
ReleaseTags == (V1_2_3 :> 1) @@ (V1_10_0 :> 3) @@ (V2_0_0_rc :> 4)

MasterRefspec == "+refs/heads/master:refs/remotes/origin/master"

TagsRefspec == "+refs/tags/*:refs/tags/*"

\* A plausible bug: the tags refspec is added whatever the flag.
RefspecsWithTags(withTags) == <<MasterRefspec, TagsRefspec>>

\* Lines 118-120.
Refspecs(withTags) ==
    IF withTags THEN <<MasterRefspec, TagsRefspec>> ELSE <<MasterRefspec>>

HasRefspec(refspecs, spec) == \E i \in 1..Len(refspecs) : refspecs[i] = spec

\* remote.fetch(refspecs), when it succeeds: refs/remotes/origin/master is
\* forced to the remote's master; with the tags refspec every remote tag is
\* forced onto the local one of its name; without it the remote's tags whose
\* commit arrived with master are created where no tag of that name exists
\* (tag auto-follow).
fetch(r, rem, refspecs) ==
    LET withMaster == IF HasRefspec(refspecs, MasterRefspec)
                      THEN r.odb \cup Ancestors(r.commits, rem.master)
                      ELSE r.odb
        followed   == {n \in DOMAIN rem.tags :
                          rem.tags[n] \in withMaster /\ n \notin DOMAIN r.tags}
        allTags    == HasRefspec(refspecs, TagsRefspec)
        newTags    == IF allTags THEN rem.tags @@ r.tags
                      ELSE r.tags @@ [n \in followed |-> rem.tags[n]]
    IN [r EXCEPT !.originMaster = IF HasRefspec(refspecs, MasterRefspec)
                                  THEN rem.master ELSE @,
                 !.tags = newTags,
                 !.odb = withMaster
                         \cup Closure(r.commits, {newTags[n] : n \in DOMAIN newTags})]

(***************************************************************************)
(* repo.references: the names of all references, in the order the backend  *)
(* iterates them.                                                          *)
(***************************************************************************)
MasterRef == RefsHeads \o <<"m", "a", "s", "t", "e", "r">>

FeatureRef == RefsHeads \o <<"f", "e", "a", "t", "u", "r", "e">>

OriginMasterRef ==
    <<"r", "e", "f", "s", "/", "r", "e", "m", "o", "t", "e", "s", "/",
      "o", "r", "i", "g", "i", "n", "/", "m", "a", "s", "t", "e", "r">>

\* "backup_branch_%Y-%m-%d_%H_%M_%S", the timestamp as its second.
BackupRef(t) ==
    RefsHeads \o <<"b", "a", "c", "k", "u", "p", "_", "b", "r", "a", "n", "c", "h", "_">>
              \o <<Digits[t + 1]>>

TagRef(name) == RefsTags \o name

RECURSIVE SeqOfStamps(_)
SeqOfStamps(S) ==
    IF S = {} THEN <<>>
    ELSE LET t == CHOOSE x \in S : \A y \in S : x <= y
         IN <<BackupRef(t)>> \o SeqOfStamps(S \ {t})

RECURSIVE SeqOfTags(_)
SeqOfTags(S) ==
    IF S = {} THEN <<>>
    ELSE LET n == CHOOSE x \in S : \A y \in S : x = y \/ StrLess(x, y)
         IN <<TagRef(n)>> \o SeqOfTags(S \ {n})

Reverse(s) == [i \in 1..Len(s) |-> s[Len(s) + 1 - i]]

ReferenceNames(r) ==
    (IF r.heads.master # 0 THEN <<MasterRef>> ELSE <<>>)
    \o (IF r.heads.feature # 0 THEN <<FeatureRef>> ELSE <<>>)
    \o SeqOfStamps(DOMAIN r.backups)
    \o (IF r.originMaster # 0 THEN <<OriginMasterRef>> ELSE <<>>)
    \o SeqOfTags(DOMAIN r.tags)

\* The iteration order is the backend's: in name order, or the reverse.
ReferenceOrders(r) == {ReferenceNames(r), Reverse(ReferenceNames(r))}

(***************************************************************************)
(* Initial states: a working copy with master at the root or at the local  *)
(* commit, or without master and on a feature branch; clean or with an     *)
(* uncommitted edit; with or without the remote origin.                    *)
(***************************************************************************)
InitialHeads ==
    {h \in [master : {0, 1, 2}, feature : {0, 4}] : h.master # 0 \/ h.feature # 0}

Repository(heads, branch, originMaster, edited) ==
    LET tree == InitialCommits[heads[branch]].tree
    IN [commits      |-> InitialCommits,
        odb          |-> Closure(InitialCommits,
                                 {heads.master, heads.feature, originMaster}),
        heads        |-> heads,
        backups      |-> <<>>,
        originMaster |-> originMaster,
        tags         |-> NoTags,
        head         |-> AttachedTo(branch),
        index        |-> CleanIndex(tree),
        worktree     |-> IF edited THEN [tree EXCEPT !.a = LocalEdit] ELSE tree,
        state        |-> "NONE",
        stash        |-> <<>>]

\* HEAD is attached to a branch that exists.
InitialBranches ==
    {hb \in InitialHeads \X {"master", "feature"} :
        IF hb[1].feature # 0 THEN hb[2] = "feature" ELSE hb[2] = "master"}

InitialRepositories(hasOrigin) ==
    {Repository(hb[1], hb[2], o, e) :
        hb \in InitialBranches,
        o \in (IF hasOrigin THEN {1} ELSE {0, 1}), e \in BOOLEAN}

InitialRemotes ==
    {[exists |-> TRUE, master |-> m, tags |-> t] :
        m \in {1, 3, 4, 5}, t \in {NoTags, ReleaseTags}}
    \cup {[exists |-> FALSE, master |-> 1, tags |-> NoTags]}

Snap == [repo |-> repo, remote |-> remote]

Init ==
    /\ remote \in InitialRemotes
    /\ repo \in InitialRepositories(remote.exists)
    /\ clock = 0
    /\ argv = <<>>
    /\ stable = FALSE
    /\ pc = "idle"
    /\ run = 0
    /\ faults = 0
    /\ failure = ""
    /\ pre_head = 0
    /\ backup_name = 0
    /\ out = <<>>
    /\ calls = <<>>
    /\ refList = <<>>
    /\ tag = NoTag
    /\ start = Snap
    /\ log = <<>>

(***************************************************************************)
(* main(), step by step.  An exception that main does not catch ends the   *)
(* run: pc = "aborted".                                                    *)
(***************************************************************************)
RepoDir == <<"r", "e", "p", "o">>

StableFlag == <<"-", "-", "s", "t", "a", "b", "l", "e">>

\* sys.argv[1:], as the launcher or an operator may give it.
Argvs ==
    { <<>>, <<RepoDir>>, <<RepoDir \o <<"/">>, StableFlag>>,
      <<StableFlag>>, <<StableFlag, RepoDir>> }

\* s.rstrip(chars)
RECURSIVE rstrip(_, _)
rstrip(s, chars) ==
    IF s # <<>> /\ s[Len(s)] \in chars
    THEN rstrip(SubSeq(s, 1, Len(s) - 1), chars)
    ELSE s

\* "--stable" in sys.argv
HasStable(args) == \E i \in 1..Len(args) : args[i] = StableFlag

\* pygit2.Repository(repo_path) opens the working copy at RepoDir and raises
\* for a path that holds no repository.
Opens(repo_path) == repo_path = RepoDir

\* The commit a marker of the output carries (0: the marker was not printed).
MarkerCommit(lines, marker) ==
    IF \E i \in 1..Len(lines) : lines[i].text = marker
    THEN lines[CHOOSE i \in 1..Len(lines) : lines[i].text = marker].commit
    ELSE 0

\* What is kept of a finished run.
Finished ==
    [stable |-> stable, status |-> pc, pre |-> pre_head,
     post |-> MarkerCommit(out, PostHeadMarker),
     master |-> start.repo.heads.master, commits |-> Len(start.repo.commits)]

\* Whether the backend fails at a step that can fail.
FaultChoices == IF faults < MaxFaults THEN BOOLEAN ELSE {FALSE}

Injected(fault) == IF fault THEN faults + 1 ELSE faults

Between == pc \in {"idle", "done", "aborted", "exited"}

UsageLine == "Usage: python update_comfyui.py <repo_path> [--stable]"

\* Lines 73-83: the program is started with some arguments.  A start that
\* opens the working copy is a run; the run it follows is kept in log.
StartRun ==
    /\ Between
    /\ \E args \in Argvs :
          /\ argv' = args
          /\ stable' = HasStable(args)
          /\ IF Len(args) < 1
             THEN /\ out' = <<Say(UsageLine)>>
                  /\ pc' = "exited"
                  /\ run' = run
                  /\ failure' = ""
             ELSE /\ out' = <<>>
                  /\ IF Opens(rstrip(args[1], {"/", "\\"}))
                     THEN /\ run < MaxRuns
                          /\ pc' = "pre_head"
                          /\ run' = run + 1
                          /\ failure' = ""
                     ELSE /\ pc' = "aborted"
                          /\ run' = run
                          /\ failure' = "open"
    /\ log' = IF pre_head # 0 THEN <<Finished>> ELSE log
    /\ start' = Snap
    /\ pre_head' = 0
    /\ backup_name' = 0
    /\ calls' = <<>>
    /\ tag' = NoTag
    /\ refList' = <<>>
    /\ UNCHANGED <<repo, remote, clock, faults>>

\* Lines 85-87.
PreHead ==
    /\ pc = "pre_head"
    /\ pre_head' = HeadCommit(repo)
    /\ out' = Append(out, Line(PreHeadMarker, HeadCommit(repo), 0, <<>>, ""))
    /\ pc' = "stash"
    /\ UNCHANGED <<argv, repo, remote, clock, stable, run, faults, failure,
                   backup_name, calls, refList, tag, start, log>>

StashRetryLine == "Could not stash, cleaning index and trying again."

\* A plausible bug: the backup step is left out, the fetch follows the stash.
StashThenFetch ==
    /\ pc = "stash"
    /\ \E fault \in FaultChoices :
          LET res == stash(repo, fault)
          IN /\ repo' = res.repo
             /\ faults' = Injected(fault)
             /\ out' = out \o <<Say("Stashing current changes...")>>
                           \o (CASE res.raised = "KeyError" ->
                                        <<Say("Nothing to stash.")>>
                                 [] res.raised = "GitError" ->
                                        <<Say(StashRetryLine)>>
                                 [] OTHER -> <<>>)
             /\ pc' = IF res.raised = "GitError" THEN "stash_retry" ELSE "fetch"
    /\ calls' = Append(calls, "stash")
    /\ UNCHANGED <<argv, remote, clock, stable, run, failure, pre_head, backup_name,
                   refList, tag, start, log>>

\* Lines 90-96: the first attempt to stash.
Stash ==
    /\ pc = "stash"
    /\ \E fault \in FaultChoices :
          LET res == stash(repo, fault)
          IN /\ repo' = res.repo
             /\ faults' = Injected(fault)
             /\ out' = out \o <<Say("Stashing current changes...")>>
                           \o (CASE res.raised = "KeyError" ->
                                        <<Say("Nothing to stash.")>>
                                 [] res.raised = "GitError" ->
                                        <<Say(StashRetryLine)>>
                                 [] OTHER -> <<>>)
             /\ pc' = IF res.raised = "GitError" THEN "stash_retry" ELSE "backup"
    /\ calls' = Append(calls, "stash")
    /\ UNCHANGED <<argv, remote, clock, stable, run, failure, pre_head, backup_name,
                   refList, tag, start, log>>

\* Lines 97-103: the index is reset to HEAD's tree and the stash tried again.
StashRetry ==
    /\ pc = "stash_retry"
    /\ \E fault \in FaultChoices :
          LET res == stash(clean_index(repo), fault)
          IN /\ repo' = res.repo
             /\ faults' = Injected(fault)
             /\ out' = IF res.raised = "KeyError"
                       THEN Append(out, Say("Nothing to stash.")) ELSE out
             /\ pc' = IF res.raised = "GitError" THEN "aborted" ELSE "backup"
             /\ failure' = IF res.raised = "GitError" THEN "stash" ELSE ""
    /\ calls' = calls \o <<"state_cleanup", "index.read_tree", "index.write", "stash">>
    /\ UNCHANGED <<argv, remote, clock, stable, run, pre_head, backup_name,
                   refList, tag, start, log>>

\* A plausible bug: the backup is taken of local master, not of HEAD.
create_backup_at_master(r, t, fault) ==
    IF fault \/ t \in DOMAIN r.backups
    THEN [repo |-> r, raised |-> "Exception"]
    ELSE [repo |-> [r EXCEPT !.backups =
                        (t :> IF r.heads.master # 0 THEN r.heads.master
                              ELSE HeadCommit(r)) @@ @],
          raised |-> ""]

\* A plausible bug: the branch is created with force, which repoints a branch
\* of the same name.
create_backup_forced(r, t, fault) ==
    IF fault
    THEN [repo |-> r, raised |-> "Exception"]
    ELSE [repo |-> [r EXCEPT !.backups =
                        (t :> HeadCommit(r))
                        @@ [u \in DOMAIN @ \ {t} |-> @[u]]],
          raised |-> ""]

\* repo.branches.local.create(name, commit): raises when the branch exists or
\* the backend fails (fault).
create_backup(r, t, fault) ==
    IF fault \/ t \in DOMAIN r.backups
    THEN [repo |-> r, raised |-> "Exception"]
    ELSE [repo |-> [r EXCEPT !.backups = (t :> HeadCommit(r)) @@ @], raised |-> ""]

\* A plausible bug: the exception of the branch creation is not caught (the
\* warning is printed as the run ends).
BackupAborting ==
    /\ pc = "backup"
    /\ \E t \in (IF clock = 0 THEN {1} ELSE {clock, clock + 1}),
          fault \in FaultChoices :
          LET res == create_backup(repo, t, fault)
          IN /\ backup_name' = t
             /\ faults' = Injected(fault)
             /\ clock' = t
             /\ repo' = res.repo
             /\ out' = out \o <<Line("Creating backup branch: ", 0, t, <<>>, "")>>
                           \o (IF res.raised = ""
                               THEN <<Line(BackupMarker, 0, t, <<>>, "")>>
                               ELSE <<Say("Warning: could not create backup branch.")>>)
             /\ pc' = IF res.raised = "" THEN "fetch" ELSE "aborted"
    /\ calls' = Append(calls, "branches.local.create")
    /\ UNCHANGED <<argv, remote, stable, run, failure, pre_head, refList, tag,
                   start, log>>

\* Lines 105-112.  The name is the wall clock's second: the second of the
\* last name generated, or a later one.
Backup ==
    /\ pc = "backup"
    /\ \E t \in (IF clock = 0 THEN {1} ELSE {clock, clock + 1}),
          fault \in FaultChoices :
          LET res == create_backup(repo, t, fault)
          IN /\ backup_name' = t
             /\ faults' = Injected(fault)
             /\ clock' = t
             /\ repo' = res.repo
             /\ out' = out \o <<Line("Creating backup branch: ", 0, t, <<>>, "")>>
                           \o (IF res.raised = ""
                               THEN <<Line(BackupMarker, 0, t, <<>>, "")>>
                               ELSE <<Say("Warning: could not create backup branch.")>>)
    /\ calls' = Append(calls, "branches.local.create")
    /\ pc' = "fetch"
    /\ UNCHANGED <<argv, remote, stable, run, failure, pre_head, refList, tag,
                   start, log>>

\* A plausible bug: the fetch fails after it has updated the references.
FetchPartial ==
    /\ pc = "fetch"
    /\ out' = Append(out, Say("Fetching from origin..."))
    /\ IF remote.exists
       THEN /\ calls' = calls \o <<"remote.fetch">> \o Refspecs(stable)
            /\ repo' = fetch(repo, remote, Refspecs(stable))
            /\ \E fault \in FaultChoices :
                  /\ faults' = Injected(fault)
                  /\ pc' = IF fault THEN "aborted" ELSE "checkout"
                  /\ failure' = IF fault THEN "fetch" ELSE ""
       ELSE /\ pc' = "checkout"
            /\ UNCHANGED <<repo, calls, faults, failure>>
    /\ UNCHANGED <<argv, remote, clock, stable, run, pre_head, backup_name,
                   refList, tag, start, log>>

\* A plausible bug: a failure of the fetch is caught and the run goes on with
\* what the working copy already has.
FetchContinuing ==
    /\ pc = "fetch"
    /\ out' = Append(out, Say("Fetching from origin..."))
    /\ IF remote.exists
       THEN /\ calls' = calls \o <<"remote.fetch">> \o Refspecs(stable)
            /\ \E fault \in FaultChoices :
                  /\ faults' = Injected(fault)
                  /\ repo' = IF fault THEN repo
                             ELSE fetch(repo, remote, Refspecs(stable))
                  /\ failure' = IF fault THEN "fetch" ELSE ""
            /\ pc' = "checkout"
       ELSE /\ pc' = "checkout"
            /\ UNCHANGED <<repo, calls, faults, failure>>
    /\ UNCHANGED <<argv, remote, clock, stable, run, pre_head, backup_name,
                   refList, tag, start, log>>

\* A plausible bug: the remote is looked up by name, which raises when the
\* working copy has no remote named origin.
FetchRequiringOrigin ==
    /\ pc = "fetch"
    /\ out' = Append(out, Say("Fetching from origin..."))
    /\ IF remote.exists
       THEN /\ calls' = calls \o <<"remote.fetch">> \o Refspecs(stable)
            /\ \E fault \in FaultChoices :
                  /\ faults' = Injected(fault)
                  /\ IF fault
                     THEN /\ repo' = repo
                          /\ pc' = "aborted"
                          /\ failure' = "fetch"
                     ELSE /\ repo' = fetch(repo, remote, Refspecs(stable))
                          /\ pc' = "checkout"
                          /\ failure' = ""
       ELSE /\ pc' = "aborted"
            /\ failure' = "fetch"
            /\ UNCHANGED <<repo, calls, faults>>
    /\ UNCHANGED <<argv, remote, clock, stable, run, pre_head, backup_name,
                   refList, tag, start, log>>

\* Lines 114-122: the remote named origin, if there is one, is fetched once;
\* a transport or backend failure (fault) raises.
Fetch ==
    /\ pc = "fetch"
    /\ out' = Append(out, Say("Fetching from origin..."))
    /\ IF remote.exists
       THEN /\ calls' = calls \o <<"remote.fetch">> \o Refspecs(stable)
            /\ \E fault \in FaultChoices :
                  /\ faults' = Injected(fault)
                  /\ IF fault
                     THEN /\ repo' = repo
                          /\ pc' = "aborted"
                          /\ failure' = "fetch"
                     ELSE /\ repo' = fetch(repo, remote, Refspecs(stable))
                          /\ pc' = "checkout"
                          /\ failure' = ""
       ELSE /\ pc' = "checkout"
            /\ UNCHANGED <<repo, calls, faults, failure>>
    /\ UNCHANGED <<argv, remote, clock, stable, run, pre_head, backup_name,
                   refList, tag, start, log>>

\* A plausible bug: local master is created if it is missing, and HEAD stays
\* where it was.
checkout_master_staying(r) ==
    IF r.heads.master # 0
    THEN Returned(r, <<>>, <<"checkout">>)
    ELSE IF r.originMaster = 0
    THEN Raised(r, <<>>, <<>>, "KeyError")
    ELSE Returned([r EXCEPT !.heads.master = r.originMaster],
                  <<>>, <<"create_branch", "checkout">>)

\* Lines 126-131: local master is created at origin/master if it is missing
\* (lookup_reference raises KeyError if that is missing too), then checked
\* out.
checkout_master(r) ==
    IF r.heads.master # 0
    THEN Returned(checkout_branch(r, "master"), <<>>, <<"checkout">>)
    ELSE IF r.originMaster = 0
    THEN Raised(r, <<>>, <<>>, "KeyError")
    ELSE Returned(checkout_branch([r EXCEPT !.heads.master = r.originMaster], "master"),
                  <<>>, <<"create_branch", "checkout">>)

Checkout ==
    /\ pc = "checkout"
    /\ LET res == checkout_master(repo)
       IN /\ repo' = res.repo
          /\ calls' = calls \o res.calls
          /\ pc' = IF res.raised = "" THEN "pull" ELSE "aborted"
          /\ failure' = IF res.raised = "" THEN "" ELSE "checkout"
    /\ out' = Append(out, Say("Checking out master branch..."))
    /\ UNCHANGED <<argv, remote, clock, stable, run, faults, pre_head, backup_name,
                   refList, tag, start, log>>

\* Lines 134-135.
Pull ==
    /\ pc = "pull"
    /\ \E fault \in FaultChoices :
          LET res == pull(repo, ~fault)
          IN /\ repo' = res.repo
             /\ faults' = IF res.raised = "KeyError" /\ repo.originMaster # 0
                          THEN faults + 1 ELSE faults
             /\ out' = out \o <<Say("Pulling latest changes...")>> \o res.lines
             /\ calls' = calls \o res.calls
             /\ pc' = IF res.raised # "" THEN "aborted"
                      ELSE IF stable THEN "stable_tag" ELSE "post_head"
             /\ failure' = IF res.raised # "" THEN "pull" ELSE ""
    /\ UNCHANGED <<argv, remote, clock, stable, run, pre_head, backup_name,
                   refList, tag, start, log>>

\* tag.replace("refs/tags/", "")
tag_name(t) == RemoveAll(t, RefsTags)

\* The name under which repo.tags holds the reference refs/tags/<name>.
ShortName(t) == SubSeq(t, Len(RefsTags) + 1, Len(t))

\* Lines 138-146, with --stable.
StableTag ==
    /\ pc = "stable_tag"
    /\ \E refs \in ReferenceOrders(repo) :
          LET t == find_latest_stable_tag(refs)
          IN /\ tag' = t
             /\ refList' = refs
             /\ IF t # NoTag
                THEN /\ repo' = checkout_tag(repo, ShortName(t))
                     /\ out' = out \o <<Line("Checking out stable tag: ", 0, 0, t, ""),
                                        Line(TagMarker, 0, 0, tag_name(t), "")>>
                     /\ calls' = Append(calls, "checkout tag")
                ELSE /\ out' = Append(out,
                                      Say("No stable tags found, staying on master."))
                     /\ UNCHANGED <<repo, calls>>
    /\ pc' = "post_head"
    /\ UNCHANGED <<argv, remote, clock, stable, run, faults, failure, pre_head,
                   backup_name, start, log>>

\* A plausible bug: the commit read before the update is printed again.
PostHeadStale ==
    /\ pc = "post_head"
    /\ out' = out \o <<Line(PostHeadMarker, pre_head, 0, <<>>, ""), Say("Done!")>>
    /\ pc' = "done"
    /\ UNCHANGED <<argv, repo, remote, clock, stable, run, faults, failure, pre_head,
                   backup_name, calls, refList, tag, start, log>>

\* Lines 148-152.
PostHead ==
    /\ pc = "post_head"
    /\ out' = out \o <<Line(PostHeadMarker, HeadCommit(repo), 0, <<>>, ""), Say("Done!")>>
    /\ pc' = "done"
    /\ UNCHANGED <<argv, repo, remote, clock, stable, run, faults, failure, pre_head,
                   backup_name, calls, refList, tag, start, log>>

Next ==
    \/ StartRun
    \/ PreHead
    \/ Stash
    \/ StashRetry
    \/ Backup
    \/ Fetch
    \/ Checkout
    \/ Pull
    \/ StableTag
    \/ PostHead

Spec == Init /\ [][Next]_vars

(***************************************************************************)
(* find_latest_stable_tag on its own: the references are any list of at    *)
(* most MaxRefs distinct names of the catalog, in any iteration order.     *)
(***************************************************************************)
RefCatalog ==
    { TagRef(V1_2_3),
      TagRef(V1_10_0),
      TagRef(<<"v", "2", ".", "0", ".", "0">>),
      TagRef(V2_0_0_rc),
      TagRef(<<"v", "0", "1", ".", "2", ".", "3">>),
      TagRef(<<"v", "1", ".", "2">>),
      TagRef(<<"v", "-", "1">>),
      TagRef(<<"v", "+", "3">>),
      TagRef(<<"v", "1", "_", "0">>),
      TagRef(<<"v">>),
      TagRef(<<"1", ".", "0">>),
      RefsHeads \o <<"v", "9">> }

Range(s) == {s[i] : i \in 1..Len(s)}

\* The lists of n distinct names.
Enumerations(names, n) ==
    {s \in [1..n -> names] : \A i, j \in 1..n : s[i] = s[j] => i = j}

RefLists == UNION {Enumerations(RefCatalog, n) : n \in 0..MaxRefs}

InitSelect ==
    /\ refList \in RefLists
    /\ pc = "select"
    /\ tag = NoTag
    /\ remote = [exists |-> FALSE, master |-> 1, tags |-> NoTags]
    /\ repo = Repository([master |-> 1, feature |-> 0], "master", 0, FALSE)
    /\ clock = 0
    /\ argv = <<>>
    /\ stable = TRUE
    /\ run = 0
    /\ faults = 0
    /\ failure = ""
    /\ pre_head = 0
    /\ backup_name = 0
    /\ out = <<>>
    /\ calls = <<>>
    /\ start = Snap
    /\ log = <<>>

\* Line 139.
SelectLatest ==
    /\ pc = "select"
    /\ tag' = find_latest_stable_tag(refList)
    /\ pc' = "selected"
    /\ UNCHANGED <<argv, repo, remote, clock, stable, run, faults, failure, pre_head,
                   backup_name, out, calls, refList, start, log>>

SelectSpec == InitSelect /\ [][SelectLatest]_vars

(***************************************************************************)
(* Properties of find_latest_stable_tag, checked under SelectSpec.         *)
(***************************************************************************)
\* The names that pass the filter of lines 62-68.
Survivors(refs) ==
    {n \in Range(refs) : StartsWith(n, TagPrefix) /\ ParseParts(n).ok}

Version(n) == ParseParts(n).parts

\* Component-wise integer comparison, stated without recursion: p is below q
\* when the first position where they differ holds a smaller integer in p, or
\* p ends there and q goes on.
VersionBelow(p, q) ==
    \E i \in 1..Len(q) :
        /\ \A j \in 1..(i - 1) : j <= Len(p) /\ p[j] = q[j]
        /\ \/ i = Len(p) + 1
           \/ i <= Len(p) /\ p[i] < q[i]

Reorderings(refs) ==
    {[i \in 1..Len(refs) |-> refs[perm[i]]] :
        perm \in {f \in [1..Len(refs) -> 1..Len(refs)] :
                     \A i, j \in 1..Len(refs) : f[i] = f[j] => i = j}}

\* C7: whenever a tag survives the filter, the returned tag is a survivor
\* and no survivor's version is greater under component-wise integer
\* comparison; every iteration order of the same references yields the same
\* tag, also when two survivors parse to the same version.
C7_VersionOrdering ==
    pc = "selected" =>
        /\ Survivors(refList) # {} =>
              /\ tag \in Survivors(refList)
              /\ \A n \in Survivors(refList) :
                    ~VersionBelow(Version(tag), Version(n))
        /\ \A other \in Reorderings(refList) :
              find_latest_stable_tag(other) = tag

\* v1.10.0 is chosen over v1.2.3, which is the greater one as text.
C7_Witness ==
    /\ pc = "selected"
    /\ TagRef(V1_2_3) \in Range(refList)
    /\ TagRef(V1_10_0) \in Range(refList)
    /\ StrLess(TagRef(V1_10_0), TagRef(V1_2_3))
    /\ tag = TagRef(V1_10_0)

\* A component that is a non-negative integer: int() accepts it and the value
\* is not below zero.
NonNegativeInt(piece) == ParseInt(piece).ok /\ ParseInt(piece).val >= 0

AllNonNegative(n) ==
    LET pieces == Split(SubSeq(n, Len(TagPrefix) + 1, Len(n)), ".")
    IN StartsWith(n, TagPrefix)
       /\ \A i \in 1..Len(pieces) : NonNegativeInt(pieces[i])

\* C8: the returned tag has the prefix "refs/tags/v" and only components that
\* are non-negative integers, and nothing is returned when no reference has
\* that shape.
C8_OnlyNonNegativeVersions ==
    pc = "selected" =>
        /\ tag # NoTag => AllNonNegative(tag)
        /\ (\A n \in Range(refList) : ~AllNonNegative(n)) => tag = NoTag

(***************************************************************************)
(* Properties of main(), checked under Spec.                               *)
(***************************************************************************)
Printed(text) == \E i \in 1..Len(out) : out[i].text = text

Positions(text) == {i \in 1..Len(out) : out[i].text = text}

Called(op) == \E i \in 1..Len(calls) : calls[i] = op

\* The timestamp the [BACKUP_BRANCH] line names.
PrintedBackup == out[CHOOSE i \in 1..Len(out) : out[i].text = BackupMarker].stamp

\* C1: from the moment [BACKUP_BRANCH] is printed and in every later state of
\* the run, the branch it names exists and points at the commit that
\* [PRE_UPDATE_HEAD] printed, which is the HEAD commit of the start of the run.
C1_BackupAtPreUpdateHead ==
    Printed(BackupMarker) =>
        /\ PrintedBackup \in DOMAIN repo.backups
        /\ PrintedBackup \notin DOMAIN start.repo.backups
        /\ repo.backups[PrintedBackup] = MarkerCommit(out, PreHeadMarker)
        /\ repo.backups[PrintedBackup] = HeadCommit(start.repo)

\* A run that made a merge commit (HEAD moved to a new commit) and whose
\* backup branch is still at the commit HEAD had on a feature branch.
C1_Witness ==
    /\ pc = "done"
    /\ Printed(BackupMarker)
    /\ Len(repo.commits) > Len(start.repo.commits)
    /\ HeadCommit(repo) = Len(repo.commits)
    /\ start.repo.head = AttachedTo("feature")
    /\ repo.backups[PrintedBackup] = pre_head
    /\ pre_head # start.repo.heads.master

MarkerRank(text) ==
    CASE text = PreHeadMarker -> 1
      [] text = BackupMarker -> 2
      [] text = TagMarker -> 3
      [] text = PostHeadMarker -> 4

\* C5: each marker is printed at most once in a run; the markers printed
\* are in the order PRE_UPDATE_HEAD, BACKUP_BRANCH, CHECKED_OUT_TAG,
\* POST_UPDATE_HEAD; nothing of the working copy has changed and no
\* repository operation has been invoked before PRE_UPDATE_HEAD is printed;
\* and POST_UPDATE_HEAD carries the commit HEAD resolves to when the run ends.
C5_MarkerOrder ==
    /\ \A m \in Markers : Cardinality(Positions(m)) <= 1
    /\ \A i, j \in 1..Len(out) :
          (i < j /\ out[i].text \in Markers /\ out[j].text \in Markers)
              => MarkerRank(out[i].text) < MarkerRank(out[j].text)
    /\ (repo # start.repo \/ calls # <<>>) => Printed(PreHeadMarker)
    /\ Printed(PreHeadMarker) =>
          MarkerCommit(out, PreHeadMarker) = HeadCommit(start.repo)
    /\ Printed(PostHeadMarker) =>
          /\ pc = "done"
          /\ MarkerCommit(out, PostHeadMarker) = HeadCommit(repo)
    /\ pc = "done" => Printed(PostHeadMarker)

\* A run that printed the four markers and moved HEAD.
C5_Witness ==
    /\ pc = "done"
    /\ \A m \in Markers : Printed(m)
    /\ MarkerCommit(out, PostHeadMarker) # MarkerCommit(out, PreHeadMarker)
    /\ repo # start.repo

\* Neither commit is the other or an ancestor of it.
Diverged(g, a, b) == ~IsAncestor(g, a, b) /\ ~IsAncestor(g, b, a)

\* The files both sides changed, each its own way, since the merge base (the
\* empty tree when the histories share nothing).
ConflictingFiles(g, a, b) ==
    LET common == {c \in 1..Len(g) : IsAncestor(g, c, a) /\ IsAncestor(g, c, b)}
        base   == IF common = {} THEN EmptyTree
                  ELSE g[CHOOSE c \in common :
                            \A d \in common : IsAncestor(g, d, c)].tree
    IN {f \in {"a", "b"} :
           /\ g[a].tree[f] # g[b].tree[f]
           /\ g[a].tree[f] # base[f]
           /\ g[b].tree[f] # base[f]}

\* The run has reached pull() with local master and origin/master diverged and
\* some file in conflict.
ConflictingPull ==
    /\ Called("merge_analysis")
    /\ start.repo.heads.master # 0
    /\ Diverged(start.repo.commits, start.repo.heads.master, repo.originMaster)
    /\ ConflictingFiles(start.repo.commits, start.repo.heads.master,
                        repo.originMaster) # {}

\* C2: when pull() meets a local master and an origin/master that have
\* diverged with a conflicting file, the run is aborted in pull(), its last
\* lines are one "Conflict in: <path>" per conflicting file, no commit object
\* has been added, local master is where it was, and the backup branch, if
\* [BACKUP_BRANCH] was printed, is at the pre-update commit.
C2_ConflictSafety ==
    ConflictingPull =>
        LET paths == ConflictingFiles(start.repo.commits,
                                      start.repo.heads.master, repo.originMaster)
        IN /\ pc = "aborted"
           /\ failure = "pull"
           /\ \A f \in paths :
                 \E i \in 1..Len(out) :
                     out[i].text = "Conflict in: " /\ out[i].arg = f
           /\ Cardinality(Positions("Conflict in: ")) = Cardinality(paths)
           /\ repo.commits = start.repo.commits
           /\ repo.heads.master = start.repo.heads.master
           /\ ~Called("create_commit")
           /\ Printed(BackupMarker) => repo.backups[PrintedBackup] = pre_head

\* Local commit 2 and upstream commit 3 both edit file a: the run aborted
\* after naming the file, with the backup made.
C2_Witness ==
    /\ ConflictingPull
    /\ start.repo.heads.master = 2
    /\ repo.originMaster = 3
    /\ Called("remote.fetch")
    /\ Printed("Conflict in: ")
    /\ Printed(BackupMarker)
    /\ pc = "aborted"

\* C3: after a successful run without --stable that found origin/master at a
\* proper descendant B of the commit A of local master, HEAD resolves to B,
\* local master is B, HEAD is attached to master and the commit objects are
\* those of the start of the run.
C3_FastForward ==
    (/\ pc = "done"
     /\ ~stable
     /\ start.repo.heads.master # 0
     /\ repo.originMaster # start.repo.heads.master
     /\ IsAncestor(start.repo.commits, start.repo.heads.master, repo.originMaster))
    => /\ HeadCommit(repo) = repo.originMaster
       /\ repo.heads.master = repo.originMaster
       /\ repo.head = AttachedTo("master")
       /\ repo.commits = start.repo.commits
       /\ repo.worktree = repo.commits[repo.originMaster].tree
       /\ MarkerCommit(out, PostHeadMarker) = repo.originMaster

\* Master was at the root and the fetch brought commit 3, its child.
C3_Witness ==
    /\ pc = "done"
    /\ ~stable
    /\ Called("remote.fetch")
    /\ Called("set_target")
    /\ start.repo.heads.master = 1
    /\ repo.originMaster = 3
    /\ repo.heads.master = 3

\* C6: after a successful run with --stable that ends with some reference
\* passing the filter of find_latest_stable_tag, HEAD is detached at the
\* commit of the tag find_latest_stable_tag returns, [CHECKED_OUT_TAG] names
\* that tag without "refs/tags/", and [POST_UPDATE_HEAD] carries that commit.
C6_DetachedPin ==
    (/\ pc = "done"
     /\ stable
     /\ Survivors(ReferenceNames(repo)) # {})
    => LET t == find_latest_stable_tag(ReferenceNames(repo))
       IN /\ t \in Survivors(ReferenceNames(repo))
          /\ tag = t
          /\ repo.head = DetachedAt(repo.tags[ShortName(t)])
          /\ ~repo.head.attached
          /\ \E i \in 1..Len(out) :
                /\ out[i].text = TagMarker
                /\ out[i].name = ShortName(t)
                /\ RefsTags \o out[i].name = t
          /\ MarkerCommit(out, PostHeadMarker) = repo.tags[ShortName(t)]

\* Master was fast-forwarded to commit 4 and HEAD then detached at commit 3,
\* the commit of v1.10.0.
C6_Witness ==
    /\ pc = "done"
    /\ stable
    /\ tag = TagRef(V1_10_0)
    /\ repo.head = DetachedAt(3)
    /\ repo.heads.master = 4
    /\ Printed(TagMarker)

\* The run before the current one, when the current one follows a run.
Previous == log[Len(log)]

\* Two successful runs in a row with the same flags against a remote that
\* exists (it is the same in both runs), the second one finished.
TwoRunsDone ==
    /\ pc = "done"
    /\ log # <<>>
    /\ Previous.status = "done"
    /\ Previous.stable = stable
    /\ remote.exists

NothingNewTwice ==
    /\ Previous.commits = Len(start.repo.commits)
    /\ Len(start.repo.commits) = Len(repo.commits)
    /\ MarkerCommit(out, PreHeadMarker) = MarkerCommit(out, PostHeadMarker)
    /\ MarkerCommit(out, PostHeadMarker) = Previous.post
    /\ Previous.post # 0

\* C4 as stated: if the commit HEAD resolved to when the first run started
\* contains the remote's master, two runs in a row add no commit and the
\* second run's PRE_UPDATE_HEAD and POST_UPDATE_HEAD equal the first run's
\* POST_UPDATE_HEAD.
C4_AsStated ==
    (TwoRunsDone /\ IsAncestor(repo.commits, remote.master, Previous.pre))
        => NothingNewTwice

\* C4, amended: if local master existed when the first run started and
\* contained the remote's master, two runs in a row add no commit and the
\* second run's PRE_UPDATE_HEAD and POST_UPDATE_HEAD equal the first run's
\* POST_UPDATE_HEAD, with --stable and without.
C4_NoOpIdempotence ==
    (/\ TwoRunsDone
     /\ Previous.master # 0
     /\ IsAncestor(repo.commits, remote.master, Previous.master))
        => NothingNewTwice

\* Two runs with --stable from a feature branch: the first moved HEAD to the
\* tag's commit, the second started and ended there.
C4_Witness ==
    /\ TwoRunsDone
    /\ stable
    /\ Previous.master # 0
    /\ IsAncestor(repo.commits, remote.master, Previous.master)
    /\ Previous.pre # Previous.post
    /\ Called("remote.fetch")
    /\ Called("checkout tag")
    /\ pre_head = Previous.post

\* The stash step of the current run saved a snapshot.
SnapshotCaptured == Len(repo.stash) > Len(start.repo.stash)

\* The snapshot of the current run is on top of the store, over the snapshots
\* the store held before, and it holds the working tree of the start of the
\* run on top of the pre-update commit.
SnapshotRetained ==
    /\ Len(repo.stash) = Len(start.repo.stash) + 1
    /\ Tail(repo.stash) = start.repo.stash
    /\ Head(repo.stash).worktree = start.repo.worktree
    /\ Head(repo.stash).base = pre_head

\* The files that held uncommitted content when the run started.
EditedFiles ==
    {f \in {"a", "b"} : start.repo.worktree[f] # HeadTree(start.repo)[f]}

\* No such file holds that content now.
EditsAbsent ==
    \A f \in EditedFiles : repo.worktree[f] # start.repo.worktree[f]

WrittenByRun(f) ==
    \/ repo.worktree[f] = HeadTree(repo)[f]
    \/ /\ Called("merge")
       /\ \/ repo.worktree[f] = repo.commits[repo.originMaster].tree[f]
          \/ /\ repo.worktree[f] = ConflictMarkers
             /\ f \in ConflictingFiles(repo.commits, HeadCommit(repo),
                                       repo.originMaster)

StepLines ==
    << "Stashing current changes...", "Creating backup branch: ",
       "Fetching from origin...", "Checking out master branch...",
       "Pulling latest changes..." >>

StepCalls ==
    << {"stash", "state_cleanup", "index.read_tree", "index.write"},
       {"branches.local.create"},
       {"remote.fetch"},
       {"create_branch", "checkout"},
       {"merge_analysis", "checkout_tree", "set_target", "merge", "create_commit"},
       {"checkout tag"} >>

\* The step an exception left main() at (0: opening the working copy).
FailedStep ==
    CASE failure = "open" -> 0
      [] failure = "stash" -> 1
      [] failure = "fetch" -> 3
      [] failure = "checkout" -> 4
      [] failure = "pull" -> 5

\* C10: when an exception has left main() at a step, the run is over; the
\* progress lines printed are those of the steps up to the failing one and
\* no operation of a later step has been invoked; neither [POST_UPDATE_HEAD]
\* nor "Done!" nor [CHECKED_OUT_TAG] is printed; [PRE_UPDATE_HEAD] is printed
\* unless the working copy did not open, and [BACKUP_BRANCH] is printed
\* exactly when the backup step was passed and created its branch.
C10_FatalFailures ==
    /\ pc = "aborted" <=> failure # ""
    /\ failure # "" =>
          /\ \A k \in 1..5 : Printed(StepLines[k]) <=> k <= FailedStep
          /\ \A k \in 1..6 :
                k > FailedStep => \A op \in StepCalls[k] : ~Called(op)
          /\ ~Printed(PostHeadMarker)
          /\ ~Printed("Done!")
          /\ ~Printed(TagMarker)
          /\ ~Printed("Checking out stable tag: ")
          /\ ~Printed("No stable tags found, staying on master.")
          /\ Printed(PreHeadMarker) <=> FailedStep >= 1
          /\ Printed(BackupMarker) <=>
                /\ FailedStep >= 2
                /\ backup_name \in DOMAIN repo.backups
                /\ backup_name \notin DOMAIN start.repo.backups

\* The fetch failed after a snapshot was saved and the backup branch made.
C10_Witness ==
    /\ failure = "fetch"
    /\ pc = "aborted"
    /\ SnapshotCaptured
    /\ Printed(BackupMarker)
    /\ Called("remote.fetch")
    /\ repo.originMaster = start.repo.originMaster

BackupWarning == "Warning: could not create backup branch."

\* The backup step of the current run created its branch.
BackupCreated ==
    /\ backup_name # 0
    /\ backup_name \in DOMAIN repo.backups
    /\ backup_name \notin DOMAIN start.repo.backups

\* C11: once the backup step has run, exactly one of [BACKUP_BRANCH] and the
\* warning line is printed: the marker when the step created its branch, the
\* warning when the creation failed (the name exists already, or the backend
\* failed); and a run whose last line is the warning is at the fetch step, not
\* aborted.
C11_BackupFailureWarning ==
    /\ Called("branches.local.create") =>
          /\ Printed(BackupMarker) <=> BackupCreated
          /\ Printed(BackupWarning) <=> ~BackupCreated
          /\ Printed(BackupMarker) => PrintedBackup = backup_name
    /\ ~Called("branches.local.create") =>
          ~Printed(BackupMarker) /\ ~Printed(BackupWarning)
    /\ (out # <<>> /\ out[Len(out)].text = BackupWarning) =>
          pc = "fetch" /\ failure = ""

\* The generated name was that of the branch the run before had made; the run
\* printed the warning, fetched and finished.
C11_Witness ==
    /\ pc = "done"
    /\ backup_name \in DOMAIN start.repo.backups
    /\ Printed(BackupWarning)
    /\ ~Printed(BackupMarker)
    /\ Called("remote.fetch")
    /\ Printed(PostHeadMarker)

NoRepoPath ==
    /\ pc # "idle"
    /\ \A i \in 1..Len(argv) : argv[i] = StableFlag

\* C13: after a start without the repo_path argument the program has printed
\* the usage message and nothing else, has exited through sys.exit(1), has
\* not opened the working copy and has invoked no repository operation, and
\* the working copy is as it was.
C13_UsageError ==
    NoRepoPath =>
        /\ pc = "exited"
        /\ out = <<Say(UsageLine)>>
        /\ failure = ""
        /\ calls = <<>>
        /\ repo = start.repo

\* How many times the current run has invoked an operation.
Count(op) == Cardinality({i \in 1..Len(calls) : calls[i] = op})

NothingToStash == "Nothing to stash."

\* C14: a run invokes the stash once, or twice with the repair (state_cleanup,
\* index.read_tree, index.write) in between and nowhere else; it goes to the
\* second attempt exactly when the first one failed otherwise than with
\* nothing to stash, which prints the retry line; "Nothing to stash." is
\* printed at most once; and when the second attempt fails otherwise than with
\* nothing to stash the run is aborted with the index reset to the tree of
\* HEAD, no backup attempted and no fetch issued.  A run aborted before the
\* backup step was aborted by that failure.
C14_StashAttempts ==
    /\ Count("stash") <= 2
    /\ Count("index.read_tree") <= 1
    /\ Count("index.write") = Count("index.read_tree")
    /\ Count("stash") = 2 <=> Count("index.read_tree") = 1
    /\ Count("stash") = 2 =>
          SubSeq(calls, 1, 5) =
              <<"stash", "state_cleanup", "index.read_tree", "index.write", "stash">>
    /\ Printed(StashRetryLine) <=> (pc = "stash_retry" \/ Count("stash") = 2)
    /\ pc = "stash_retry" => Count("stash") = 1 /\ ~Printed(NothingToStash)
    /\ Cardinality(Positions(NothingToStash)) <= 1
    /\ failure = "stash" =>
          /\ Count("stash") = 2
          /\ ~Printed(NothingToStash)
          /\ repo.index = CleanIndex(HeadTree(repo))
          /\ repo.state = "NONE"
          /\ ~Called("branches.local.create")
          /\ ~Called("remote.fetch")
          /\ ~Printed("Creating backup branch: ")
          /\ repo.backups = start.repo.backups
    /\ (pc = "aborted" /\ Called("stash") /\ ~Called("branches.local.create"))
          => failure = "stash"
    /\ (Called("stash") /\ pc \notin {"stash_retry", "aborted"})
          => Called("branches.local.create") \/ pc = "backup"

\* The run started on an index in conflict: the first attempt failed, the
\* repair and the retry saved the snapshot, and the run went on to the backup.
C14_Witness ==
    /\ start.repo.index.conflicts # <<>>
    /\ Count("stash") = 2
    /\ SnapshotCaptured
    /\ Printed(StashRetryLine)
    /\ Printed(BackupMarker)

\* The place of a repository operation in the order of main(); state_cleanup
\* belongs to the repair of the stash step and to the merge commit, and has
\* no place of its own.
CallRank(op) ==
    CASE op \in {"stash", "index.read_tree", "index.write"} -> 1
      [] op = "branches.local.create" -> 2
      [] op \in {"remote.fetch", MasterRefspec, TagsRefspec} -> 3
      [] op = "create_branch" -> 4
      [] op = "checkout" -> 5
      [] op = "merge_analysis" -> 6
      [] op \in {"checkout_tree", "set_target", "merge", "create_commit"} -> 7
      [] op = "checkout tag" -> 8
      [] OTHER -> 0

\* The place of a printed line.
LineRank(text) ==
    CASE text \in {PreHeadMarker, UsageLine} -> 0
      [] text \in {"Stashing current changes...", NothingToStash, StashRetryLine} -> 1
      [] text \in {"Creating backup branch: ", BackupMarker, BackupWarning} -> 2
      [] text = "Fetching from origin..." -> 3
      [] text = "Checking out master branch..." -> 4
      [] text \in {"Pulling latest changes...", "Already up to date.",
                   "Conflict in: "} -> 5
      [] text \in {"Checking out stable tag: ", TagMarker,
                   "No stable tags found, staying on master."} -> 6
      [] text = PostHeadMarker -> 7
      [] text = "Done!" -> 8

\* C15: the repository operations of a run are invoked in the order stash
\* (with its repair), backup creation, fetch, creation of master, checkout of
\* master, merge analysis, fast-forward or merge and commit, tag checkout;
\* each of the operations after the backup comes after a stash attempt and
\* after the attempt to create the backup; until that attempt HEAD, the
\* branches, the tags, origin/master and the commits are those of the start
\* of the run; and the lines are printed in the order of the steps.
C15_StepOrder ==
    /\ \A i, j \in 1..Len(calls) :
          (i < j /\ calls[i] # "state_cleanup" /\ calls[j] # "state_cleanup")
              => CallRank(calls[i]) <= CallRank(calls[j])
    /\ \A j \in 1..Len(calls) :
          CallRank(calls[j]) >= 3 =>
              /\ calls[1] = "stash"
              /\ \E i \in 1..(j - 1) : calls[i] = "branches.local.create"
    /\ \A j \in 1..Len(calls) :
          calls[j] = "state_cleanup" =>
              \/ j = 2 /\ Count("stash") = 2
              \/ j > 1 /\ calls[j - 1] = "create_commit"
    /\ ~Called("branches.local.create") =>
          /\ repo.head = start.repo.head
          /\ repo.heads = start.repo.heads
          /\ repo.tags = start.repo.tags
          /\ repo.originMaster = start.repo.originMaster
          /\ repo.commits = start.repo.commits
          /\ repo.backups = start.repo.backups
    /\ \A i, j \in 1..Len(out) :
          i < j => LineRank(out[i].text) <= LineRank(out[j].text)
    /\ pc = "done" =>
          \A k \in 1..5 : Printed(StepLines[k])

\* A successful --stable run in a working copy without local master: master
\* was created, checked out and analysed, and the tag checked out last.
C15_Witness ==
    /\ pc = "done"
    /\ start.repo.heads.master = 0
    /\ Called("remote.fetch")
    /\ Called("create_branch")
    /\ Called("merge_analysis")
    /\ calls[Len(calls)] = "checkout tag"
    /\ Printed(BackupMarker)

\* pull() of the current run has merged (the analysis was a normal merge) and
\* no file was in conflict.
CleanMerge ==
    /\ Called("merge")
    /\ ConflictingFiles(start.repo.commits, start.repo.heads.master,
                        repo.originMaster) = {}

\* The merge commit the claim describes: the one commit added in the run,
\* with parents local master as it was and origin/master, and the message;
\* local master is at it, and so is HEAD until a tag is checked out; no merge
\* is in progress.
MergeCommitted ==
    LET new == Len(start.repo.commits) + 1
    IN /\ Len(repo.commits) = new
       /\ SubSeq(repo.commits, 1, new - 1) = start.repo.commits
       /\ repo.commits[new].parents =
              <<start.repo.heads.master, repo.originMaster>>
       /\ repo.commits[new].message = "Merge!"
       /\ repo.heads.master = new
       /\ ~Called("checkout tag") =>
              HeadCommit(repo) = new /\ repo.head = AttachedTo("master")
       /\ repo.state = "NONE"
       /\ Count("create_commit") = 1

\* No commit on any other path.
NoCommitOtherwise ==
    ~CleanMerge =>
        /\ repo.commits = start.repo.commits
        /\ ~Called("create_commit")

\* C16 as stated: a normal merge without conflict creates the merge commit,
\* whatever else; no other path creates a commit.
C16_AsStated ==
    /\ CleanMerge => MergeCommitted
    /\ NoCommitOtherwise

\* C16, amended: a normal merge without conflict creates the merge commit
\* when the configuration provides an identity; when it provides none, pull()
\* raises after the merge and before the commit: no commit is created, local
\* master stays, the merge stays in progress and the run is aborted.  No other
\* path creates a commit.
C16_MergeCommit ==
    /\ CleanMerge =>
          \/ MergeCommitted
          \/ /\ failure = "pull"
             /\ pc = "aborted"
             /\ ~Called("create_commit")
             /\ repo.commits = start.repo.commits
             /\ repo.heads.master = start.repo.heads.master
             /\ repo.state = "MERGE"
             /\ repo.index.conflicts = <<>>
             /\ ~Printed("Conflict in: ")
    /\ NoCommitOtherwise

\* Local commit 2 and upstream commit 4 edit different files: commit 6 merges
\* them and the run finished on it.
C16_Witness ==
    /\ pc = "done"
    /\ CleanMerge
    /\ start.repo.heads.master = 2
    /\ repo.originMaster = 4
    /\ Len(repo.commits) = 6
    /\ repo.commits[6].parents = <<2, 4>>
    /\ repo.commits[6].tree = Tree(2, 2)
    /\ HeadCommit(repo) = 6

BackupsKept ==
    \A t \in DOMAIN repo.backups :
        /\ t \in DOMAIN repo'.backups
        /\ repo'.backups[t] = repo.backups[t]

\* The backup step generated the name of a branch that exists.
Collision == pc = "backup" /\ backup_name' \in DOMAIN repo.backups

\* C18: no step of any run repoints or deletes a backup branch that exists; a
\* backup step whose name is that of an existing branch changes nothing in
\* the working copy, prints the warning and not [BACKUP_BRANCH], and goes on
\* to the fetch; and the steps from the checkout of master on (checkout, pull,
\* checkout of the tag) leave the other branches, origin/master and the tags
\* as they were: of the references they move only HEAD and local master.
C18_BackupsNeverRepointed ==
    [][/\ BackupsKept
       /\ Collision =>
             /\ repo' = repo
             /\ pc' = "fetch"
             /\ out'[Len(out')].text = BackupWarning
             /\ \A i \in 1..Len(out') : out'[i].text # BackupMarker
       /\ pc \in {"checkout", "pull", "stable_tag"} =>
             /\ repo'.heads.feature = repo.heads.feature
             /\ repo'.backups = repo.backups
             /\ repo'.originMaster = repo.originMaster
             /\ repo'.tags = repo.tags]_vars

\* A run generated the name of a backup branch of an earlier run, whose
\* commit is not the HEAD commit of this run; it went on, moved local master
\* and finished, and the branch is where it was.
C18_Witness ==
    /\ pc = "done"
    /\ backup_name \in DOMAIN start.repo.backups
    /\ start.repo.backups[backup_name] # pre_head
    /\ repo.backups = start.repo.backups
    /\ repo.heads.master # start.repo.heads.master
    /\ Printed(BackupWarning)

FetchLine == "Fetching from origin..."

CheckoutLine == "Checking out master branch..."

\* C19: a run calls remote.fetch at most once, and only when the working
\* copy has a remote named origin.  Without one the fetch step calls nothing
\* and raises nothing, origin/master and the tags stay those of the start of
\* the run, and the run goes on to the checkout step: it aborts there exactly
\* when local master is missing and there is no origin/master to create it
\* from, and its pull raises at the lookup of origin/master when that
\* reference is missing; otherwise the checkout attaches HEAD to master and
\* the pull works against the origin/master the working copy had.
C19_FetchOnlyOrigin ==
    /\ Count("remote.fetch") <= 1
    /\ Called("remote.fetch") => remote.exists
    /\ ~remote.exists =>
          /\ ~Called("remote.fetch")
          /\ failure # "fetch"
          /\ repo.originMaster = start.repo.originMaster
          /\ repo.tags = start.repo.tags
          /\ Printed(FetchLine) /\ pc # "checkout" => Printed(CheckoutLine)
          /\ failure = "checkout" <=>
                /\ Printed(CheckoutLine)
                /\ start.repo.heads.master = 0
                /\ start.repo.originMaster = 0
          /\ failure = "pull" /\ ~Called("merge_analysis") <=>
                /\ Printed("Pulling latest changes...")
                /\ start.repo.originMaster = 0
          /\ Called("merge_analysis") =>
                /\ start.repo.originMaster # 0
                /\ repo.heads.master # 0

\* A run on a working copy with no remote named origin and no local master
\* finished without a fetch: master was created at the origin/master the
\* working copy had.
C19_Witness ==
    /\ pc = "done"
    /\ ~remote.exists
    /\ ~Called("remote.fetch")
    /\ Printed(FetchLine)
    /\ start.repo.heads.master = 0
    /\ repo.heads.master = start.repo.originMaster

\* The commit local master is at when the pull starts.
MasterAtPull ==
    IF start.repo.heads.master # 0 THEN start.repo.heads.master
    ELSE repo.originMaster

\* C20: when the pull starts (the merge analysis is its first call) HEAD is
\* attached to local master, which is where the run found it, or at
\* origin/master if the run had to create it, and origin/master is the
\* remote's master if there is a remote; once the analysis is made, the
\* fast-forward has put local master at origin/master and the merge commit,
\* with parents local master and origin/master, is local master's; the other
\* branch is where the run found it; and after a successful run origin/master
\* is local master's commit or an ancestor of it.
C20_PullOnMaster ==
    /\ pc = "pull" =>
          /\ repo.head = AttachedTo("master")
          /\ repo.heads.master = MasterAtPull
          /\ repo.heads.master # 0
          /\ remote.exists => repo.originMaster = remote.master
    /\ Called("merge_analysis") =>
          /\ repo.heads.feature = start.repo.heads.feature
          /\ Called("set_target") =>
                /\ repo.heads.master = repo.originMaster
                /\ repo.heads.master # MasterAtPull
                /\ IsAncestor(repo.commits, MasterAtPull, repo.heads.master)
          /\ Called("create_commit") =>
                /\ repo.heads.master = Len(repo.commits)
                /\ repo.commits[repo.heads.master].parents
                      = <<MasterAtPull, repo.originMaster>>
          /\ ~Called("set_target") /\ ~Called("create_commit") =>
                repo.heads.master = MasterAtPull
          /\ ~Called("checkout tag") => repo.head = AttachedTo("master")
    /\ pc = "done" =>
          /\ Called("merge_analysis")
          /\ IsAncestor(repo.commits, repo.originMaster, repo.heads.master)

\* A run that started with HEAD on another branch, local master behind the
\* remote's, finished: master was fast-forwarded, the other branch was not.
C20_Witness ==
    /\ pc = "done"
    /\ start.repo.head = AttachedTo("feature")
    /\ start.repo.heads.master # 0
    /\ Called("set_target")
    /\ repo.heads.master = remote.master
    /\ repo.heads.master # start.repo.heads.master
    /\ repo.heads.feature = start.repo.heads.feature

====
